---- MODULE Spec2Model ----
(***************************************************************************)
(* A model of package bignum (github.com/ha1tch/bignum): the BigNumber     *)
(* fixed-point type, its parser NewBigNumber, its formatter String, its    *)
(* arithmetic (Add, Subtract, Multiply, Divide, Modulo), Round, the        *)
(* comparisons, Exponentiate, SquareRoot, Sine, Cosine, Tangent, Log, Exp  *)
(* and AbsoluteValue.                                                      *)
(*                                                                         *)
(* Four specifications share the variables.                                *)
(*   SpecParse  NewBigNumber on a text, String, and the parse of the text  *)
(*              String returned                                            *)
(*   Spec       one call of an operation on operands NewBigNumber made     *)
(*   SpecLoop   the loops of Exp and Log, one pass at a time               *)
(*   SpecHeap   calls that follow one another on a pool of values whose    *)
(*              big.Int objects are cells of a heap                        *)
(*                                                                         *)
(* Go values are modelled as follows.                                      *)
(*   string     a sequence of one-character strings                        *)
(*   *big.Int   a sequence of length <= 1: <<>> is nil, <<n>> points to n   *)
(*   *BigNumber a sequence of length <= 1 over records of the struct        *)
(*   error      the name of the ErrorType, NoError for a nil error, and     *)
(*              Panic for a run-time panic that unwinds the call            *)
(***************************************************************************)
EXTENDS Integers, Sequences, FiniteSets, TLC

VARIABLES pc, input, x, y, out, loop, heap

vars == <<pc, input, x, y, out, loop, heap>>

-----------------------------------------------------------------------------
(* Bounds of the model.                                                    *)

\* longest text given to NewBigNumber
MaxLen == 4
\* largest precision given to NewBigNumber
MaxPrec == 2

\* the largest value given to the loops of Exp and Log
MaxLoopOperand == 10

-----------------------------------------------------------------------------
(* Constants of the program.                                               *)

RoundUp == "RoundUp"
RoundDown == "RoundDown"
RoundToNearest == "RoundToNearest"
RoundToEven == "RoundToEven"
RoundingMode == {RoundUp, RoundDown, RoundToNearest, RoundToEven}

OverflowError == "OverflowError"
PrecisionError == "PrecisionError"
DivisionByZeroError == "DivisionByZeroError"
InvalidInputError == "InvalidInputError"
UndefinedOperationError == "UndefinedOperationError"
ErrorType == {OverflowError, PrecisionError, DivisionByZeroError,
              InvalidInputError, UndefinedOperationError}

\* a nil error
NoError == "nil"
\* a run-time panic (nil dereference, index out of range, division by zero)
Panic == "panic"

\* a nil pointer, and a pointer to v
Nil == <<>>
Ptr(v) == <<v>>

-----------------------------------------------------------------------------
(* Strings.                                                                *)

DigitChars == <<"0", "1", "2", "3", "4", "5", "6", "7", "8", "9">>
IsDigit(c) == \E i \in 1..10 : DigitChars[i] = c
DigitValue(c) == (CHOOSE i \in 1..10 : DigitChars[i] = c) - 1

\* strings.ToLower on the letters the model's texts use
LowerChar(c) ==
  CASE c = "I" -> "i"
    [] c = "N" -> "n"
    [] c = "F" -> "f"
    [] c = "A" -> "a"
    [] OTHER -> c
ToLower(str) == [i \in 1..Len(str) |-> LowerChar(str[i])]

\* strings.Index(str, c) + 1, and 0 when c does not occur
IndexOf(str, c) ==
  IF \E i \in 1..Len(str) : str[i] = c
  THEN CHOOSE i \in 1..Len(str) : str[i] = c /\ \A j \in 1..(i - 1) : str[j] # c
  ELSE 0

\* parts[0] of strings.Split(str, ".")
SplitFirst(str) ==
  IF IndexOf(str, ".") = 0 THEN str ELSE SubSeq(str, 1, IndexOf(str, ".") - 1)

\* len(strings.Split(str, ".")) > 1
SplitHasSecond(str) == IndexOf(str, ".") # 0

\* parts[1] of strings.Split(str, "."), when there is one
SplitSecond(str) ==
  SplitFirst(SubSeq(str, IndexOf(str, ".") + 1, Len(str)))

\* the number a run of decimal digits denotes
RECURSIVE DigitsToInt(_)
DigitsToInt(s) ==
  IF Len(s) = 0 THEN 0
  ELSE 10 * DigitsToInt(SubSeq(s, 1, Len(s) - 1)) + DigitValue(s[Len(s)])

AllDigits(s) == \A i \in 1..Len(s) : IsDigit(s[i])

\* (*big.Int).SetString(s, 10): an optional '+' or '-', then one or more
\* decimal digits and nothing else.  ok is the second result; when it is
\* false the receiver's value is undefined, which is the argument undef.
SetString(s, undef) ==
  LET signed == Len(s) > 0 /\ s[1] \in {"+", "-"}
      digits == IF signed THEN SubSeq(s, 2, Len(s)) ELSE s
  IN  IF Len(digits) > 0 /\ AllDigits(digits)
      THEN [ok |-> TRUE,
            z  |-> IF signed /\ s[1] = "-" THEN -DigitsToInt(digits)
                   ELSE DigitsToInt(digits)]
      ELSE [ok |-> FALSE, z |-> undef]

\* (*big.Int).String() of a non-negative integer
RECURSIVE NatToString(_)
NatToString(n) ==
  IF n < 10 THEN <<DigitChars[n + 1]>>
  ELSE Append(NatToString(n \div 10), DigitChars[(n % 10) + 1])

\* strings.Repeat("0", n)
Zeros(n) == [i \in 1..n |-> "0"]

-----------------------------------------------------------------------------
(* The BigNumber struct and its constructor.                               *)

\* &BigNumber{precision: precision, rounding: rounding}
NewStruct(precision, rounding) ==
  [positive |-> Nil, negative |-> Nil, precision |-> precision,
   rounding |-> rounding, isInf |-> FALSE, isNan |-> FALSE, value |-> Nil]

\* a result (*BigNumber, error)
Ok(bn) == [bn |-> Ptr(bn), err |-> NoError]
Fail(e) == [bn |-> Nil, err |-> e]

NewBigNumber(str, precision, rounding, undef) ==
  LET bn == NewStruct(precision, rounding)
      integerPart0 == SplitFirst(str)
      decimalPart0 == IF SplitHasSecond(str) THEN SplitSecond(str) ELSE <<>>
  IN
  IF ToLower(str) = <<"i", "n", "f">> THEN Ok([bn EXCEPT !.isInf = TRUE])
  ELSE IF ToLower(str) = <<"n", "a", "n">> THEN Ok([bn EXCEPT !.isNan = TRUE])
  ELSE IF str = <<>> THEN Fail(InvalidInputError)
  \* integerPart[0] of an empty integerPart: index out of range
  ELSE IF Len(integerPart0) = 0 THEN Fail(Panic)
  ELSE
    LET sign == IF integerPart0[1] = "-" THEN -1 ELSE 1
        integerPart == IF sign = -1 THEN Tail(integerPart0) ELSE integerPart0
        integerBigInt == SetString(integerPart, undef)
        \* the digits are read before decimalPart is cut to the precision
        decimalRead == SetString(decimalPart0, undef).z
        decimalPart == IF Len(decimalPart0) > precision
                       THEN SubSeq(decimalPart0, 1, precision)
                       ELSE decimalPart0
        scaleFactor == 10 ^ (precision - Len(decimalPart))
        decimalBigInt == IF Len(decimalPart0) > 0
                         THEN decimalRead * scaleFactor
                         ELSE 0
        positive == IF sign = 1 THEN integerBigInt.z ELSE decimalBigInt
        negative == IF sign = 1 THEN decimalBigInt ELSE integerBigInt.z
    IN  IF ~integerBigInt.ok THEN Fail(InvalidInputError)
        ELSE Ok([bn EXCEPT !.positive = Ptr(positive),
                           !.negative = Ptr(negative),
                           !.value = Ptr(positive - negative)])

\* String returns a string representation of the BigNumber: the text and
\* Panic when the stored value is nil.
String(bn) ==
  IF bn.isInf THEN [str |-> <<"I", "n", "f", "i", "n", "i", "t", "y">>, err |-> NoError]
  ELSE IF bn.isNan THEN [str |-> <<"N", "a", "N">>, err |-> NoError]
  ELSE IF bn.value = Nil THEN [str |-> <<>>, err |-> Panic]
  ELSE
    LET v == bn.value[1]
        sign == IF v < 0 THEN <<"-">> ELSE <<>>
        str == NatToString(IF v < 0 THEN -v ELSE v)
        decimalIndex == Len(str) - bn.precision
        body == IF bn.precision > 0
                THEN IF decimalIndex < 0
                     THEN Zeros(-decimalIndex) \o <<".">> \o str
                     ELSE IF decimalIndex = 0
                     THEN <<"0", ".">> \o str
                     ELSE SubSeq(str, 1, decimalIndex) \o <<".">>
                          \o SubSeq(str, decimalIndex + 1, Len(str))
                ELSE <<"0">>
    IN  [str |-> sign \o body, err |-> NoError]

\* a result (bool, panic)
Bool(b) == [b |-> b, err |-> NoError]
BoolPanic == [b |-> FALSE, err |-> Panic]

\* IsZero returns true if the BigNumber is zero.
IsZero(bn) == IF bn.value = Nil THEN BoolPanic ELSE Bool(bn.value[1] = 0)

\* (*big.Int).Cmp: -1, 0 or 1.  Cmp returns 0 for one and the same pointer
\* before it reads anything, so two nil pointers compare equal; one nil
\* pointer is dereferenced.
BigCmp(a, b) ==
  IF a = Nil /\ b = Nil THEN [c |-> 0, err |-> NoError]
  ELSE IF a = Nil \/ b = Nil THEN [c |-> 0, err |-> Panic]
  ELSE [c |-> IF a[1] < b[1] THEN -1 ELSE IF a[1] > b[1] THEN 1 ELSE 0,
        err |-> NoError]

\* bn.isInf && other.isInf || bn.isNan && other.isNan
BothSpecial(bn, other) == (bn.isInf /\ other.isInf) \/ (bn.isNan /\ other.isNan)

\* Equal checks if two BigNumbers are equal.
Equal(bn, other) ==
  IF BothSpecial(bn, other) THEN Bool(TRUE)
  ELSE IF BigCmp(bn.value, other.value).err = Panic THEN BoolPanic
  ELSE Bool(BigCmp(bn.value, other.value).c = 0)

\* LessThan checks if the BigNumber is less than another BigNumber.
LessThan(bn, other) ==
  IF BothSpecial(bn, other) THEN Bool(FALSE)
  ELSE IF BigCmp(bn.value, other.value).err = Panic THEN BoolPanic
  ELSE Bool(BigCmp(bn.value, other.value).c < 0)

\* GreaterThan checks if the BigNumber is greater than another BigNumber.
GreaterThan(bn, other) ==
  IF BothSpecial(bn, other) THEN Bool(FALSE)
  ELSE IF BigCmp(bn.value, other.value).err = Panic THEN BoolPanic
  ELSE Bool(BigCmp(bn.value, other.value).c > 0)

\* LessOrEqual with the test of LessThan
LessOrEqual_Strict(bn, other) ==
  IF BothSpecial(bn, other) THEN Bool(TRUE)
  ELSE IF BigCmp(bn.value, other.value).err = Panic THEN BoolPanic
  ELSE Bool(BigCmp(bn.value, other.value).c < 0)

\* LessOrEqual checks if the BigNumber is less than or equal to another.
LessOrEqual(bn, other) ==
  IF BothSpecial(bn, other) THEN Bool(TRUE)
  ELSE IF BigCmp(bn.value, other.value).err = Panic THEN BoolPanic
  ELSE Bool(BigCmp(bn.value, other.value).c <= 0)

\* GreaterOrEqual checks if the BigNumber is greater than or equal to another.
GreaterOrEqual(bn, other) ==
  IF BothSpecial(bn, other) THEN Bool(TRUE)
  ELSE IF BigCmp(bn.value, other.value).err = Panic THEN BoolPanic
  ELSE Bool(BigCmp(bn.value, other.value).c >= 0)

-----------------------------------------------------------------------------
(* Rounding.                                                               *)

\* (*big.Int).Abs
Abs(n) == IF n < 0 THEN -n ELSE n

\* (*big.Int).Mod and (*big.Int).Div: Euclidean modulus and division, y # 0
BigMod(a, b) == a % (IF b < 0 THEN -b ELSE b)
BigDiv(a, b) == (a - BigMod(a, b)) \div b

scaleForPrecision(bn) == 10 ^ bn.precision

\* applyRounding works on the big.Int it is given, in place, and returns it.
applyRounding(bn, value) ==
  LET halfScaleFactor == BigDiv(scaleForPrecision(bn), 2)
      scaled == BigDiv(value + halfScaleFactor, scaleForPrecision(bn))
      \* value.Mod(value, 10) stores the last digit in value
      lastDigit == BigMod(scaled, 10)
      \* value.Div(value, 10).Mod(value, 2) stores again
      parity == BigMod(BigDiv(lastDigit, 10), 2)
  IN  CASE bn.rounding = RoundToNearest -> scaled
        [] bn.rounding = RoundToEven ->
             IF lastDigit = 5
             THEN IF parity = 1 THEN parity + 1 ELSE parity
             ELSE lastDigit
        [] OTHER -> value

\* Round returns the receiver itself for its own precision; otherwise it
\* copies the value (a nil value is dereferenced) and applies the rounding
\* of the receiver, at the receiver's precision, to the copy.
Round(bn, precision) ==
  IF precision = bn.precision THEN Ok(bn)
  ELSE IF bn.value = Nil THEN Fail(Panic)
  ELSE Ok([NewStruct(precision, bn.rounding) EXCEPT
             !.value = Ptr(applyRounding(bn, bn.value[1]))])

-----------------------------------------------------------------------------
(* Arithmetic.                                                             *)

\* checkPrecision without its comparison: every pair of precisions passes
checkPrecision_Skipped(bn, other) == NoError

\* checkPrecision ensures that both BigNumbers have the same precision.
checkPrecision(bn, other) ==
  IF bn.precision # other.precision THEN PrecisionError ELSE NoError

\* checkSpecialCases checks for infinity and NaN in both BigNumbers.
checkSpecialCases(bn, other) ==
  IF bn.isInf \/ other.isInf THEN UndefinedOperationError
  ELSE IF bn.isNan \/ other.isNan THEN UndefinedOperationError
  ELSE IF IsZero(bn).err = Panic THEN Panic
  ELSE IF ~IsZero(bn).b THEN NoError
  ELSE IF IsZero(other).err = Panic THEN Panic
  ELSE IF IsZero(other).b THEN UndefinedOperationError
  ELSE NoError

checkOperands(bn, other) ==
  IF checkPrecision(bn, other) # NoError THEN checkPrecision(bn, other)
  ELSE checkSpecialCases(bn, other)

\* the parts of both operands are dereferenced
PartsNil(bn, other) ==
  Nil \in {bn.positive, bn.negative, other.positive, other.negative}

\* the result struct of Add, Subtract and Multiply
Combined(bn, precision, positive, negative) ==
  Ok([NewStruct(precision, bn.rounding) EXCEPT
        !.positive = Ptr(positive),
        !.negative = Ptr(negative),
        !.value = Ptr(applyRounding(bn, positive - negative))])

Add(bn, other) ==
  IF checkOperands(bn, other) # NoError THEN Fail(checkOperands(bn, other))
  ELSE IF PartsNil(bn, other) THEN Fail(Panic)
  ELSE Combined(bn, bn.precision,
                bn.positive[1] + other.positive[1],
                bn.negative[1] + other.negative[1])

Subtract(bn, other) ==
  IF checkOperands(bn, other) # NoError THEN Fail(checkOperands(bn, other))
  ELSE IF PartsNil(bn, other) THEN Fail(Panic)
  ELSE Combined(bn, bn.precision,
                bn.positive[1] - other.positive[1],
                bn.negative[1] - other.negative[1])

Multiply(bn, other) ==
  IF checkOperands(bn, other) # NoError THEN Fail(checkOperands(bn, other))
  ELSE IF PartsNil(bn, other) THEN Fail(Panic)
  ELSE Combined(bn, bn.precision + other.precision,
                bn.positive[1] * other.positive[1],
                bn.negative[1] * other.negative[1])

\* the checks Divide and Modulo make before they compute
\* checkDivisor without the test of the divisor
checkDivisor_NoZeroCheck(bn, other) ==
  IF checkPrecision(bn, other) # NoError THEN checkPrecision(bn, other)
  ELSE IF checkSpecialCases(bn, other) # NoError THEN checkSpecialCases(bn, other)
  ELSE NoError

checkDivisor(bn, other) ==
  IF checkPrecision(bn, other) # NoError THEN checkPrecision(bn, other)
  ELSE IF checkSpecialCases(bn, other) # NoError THEN checkSpecialCases(bn, other)
  ELSE IF IsZero(other).err = Panic THEN Panic
  ELSE IF IsZero(other).b THEN DivisionByZeroError
  ELSE NoError

Divide(bn, other) ==
  IF checkDivisor(bn, other) # NoError THEN Fail(checkDivisor(bn, other))
  ELSE IF PartsNil(bn, other) THEN Fail(Panic)
  ELSE
    LET scaleFactor == scaleForPrecision(bn)
        scaledDividendPositive == bn.positive[1] * scaleFactor
        scaledDividendNegative == bn.negative[1] * scaleFactor
        scaledDivisorPositive == other.positive[1] * scaleFactor
        scaledDivisorNegative == other.negative[1] * scaleFactor
        \* NewBigNumber("", ...) returns a nil *BigNumber
        quotient == NewBigNumber(<<>>, bn.precision, bn.rounding, 0).bn
    IN  \* big.Int.Div panics on a zero divisor
        IF scaledDivisorPositive = 0 \/ scaledDivisorNegative = 0 THEN Fail(Panic)
        \* quotient.positive = ... on the nil quotient
        ELSE IF quotient = Nil THEN Fail(Panic)
        ELSE
          LET quotientPositive == BigDiv(scaledDividendPositive, scaledDivisorPositive)
              quotientNegative == BigDiv(scaledDividendNegative, scaledDivisorNegative)
              swap == quotientPositive < quotientNegative
              positive == IF swap THEN quotientNegative ELSE quotientPositive
              negative == IF swap THEN quotientPositive ELSE quotientNegative
          IN  Ok([quotient[1] EXCEPT !.positive = Ptr(positive),
                                     !.negative = Ptr(negative),
                                     !.value = Ptr(positive - negative)])

Modulo(bn, other) ==
  IF checkDivisor(bn, other) # NoError THEN Fail(checkDivisor(bn, other))
  ELSE IF PartsNil(bn, other) THEN Fail(Panic)
  ELSE
    LET scaleFactor == scaleForPrecision(bn)
        scaledDividendPositive == bn.positive[1] * scaleFactor
        scaledDividendNegative == bn.negative[1] * scaleFactor
        scaledDivisorPositive == other.positive[1] * scaleFactor
        scaledDivisorNegative == other.negative[1] * scaleFactor
        \* NewBigNumber("", ...) returns a nil *BigNumber
        remainder == NewBigNumber(<<>>, bn.precision, bn.rounding, 0).bn
    IN  \* big.Int.Mod panics on a zero divisor
        IF scaledDivisorPositive = 0 \/ scaledDivisorNegative = 0 THEN Fail(Panic)
        \* remainder.positive = ... on the nil remainder
        ELSE IF remainder = Nil THEN Fail(Panic)
        ELSE
          LET remainderPositive == BigMod(scaledDividendPositive, scaledDivisorPositive)
              remainderNegative == BigMod(scaledDividendNegative, scaledDivisorNegative)
          IN  Ok([remainder[1] EXCEPT !.positive = Ptr(remainderPositive),
                                      !.negative = Ptr(remainderNegative),
                                      !.value = Ptr(remainderPositive - remainderNegative)])

-----------------------------------------------------------------------------
(* Functions of one value.                                                 *)

\* an error made by fmt.Errorf: it is no BigNumberError and has no ErrorType
PlainError == "errorString"

\* a call whose loop never ends
NoReturn == "no return"

\* &BigNumber{precision: bn.precision, rounding: bn.rounding, isInf: true}
InfStruct(bn) == [NewStruct(bn.precision, bn.rounding) EXCEPT !.isInf = TRUE]

\* &BigNumber{precision: bn.precision, rounding: bn.rounding, isNan: true}
NanStruct(bn) == [NewStruct(bn.precision, bn.rounding) EXCEPT !.isNan = TRUE]

\* (*big.Int).String
IntToString(n) == IF n < 0 THEN <<"-">> \o NatToString(-n) ELSE NatToString(n)

\* new(big.Int).Exp(x, y, nil): x**y, and 1 for y <= 0
BigExp(a, e) == IF e <= 0 THEN 1 ELSE a ^ e

\* Exponentiate without its test for overflow
Exponentiate_NoOverflowTest(bn, exponent) ==
  IF bn.positive = Nil \/ bn.negative = Nil THEN Fail(Panic)
  ELSE
    LET positive == BigExp(bn.positive[1], exponent)
        negative == BigExp(bn.negative[1], exponent)
        swap == positive < negative
    IN  Ok([NewStruct(bn.precision, bn.rounding) EXCEPT
              !.positive = Ptr(IF swap THEN negative ELSE positive),
              !.negative = Ptr(IF swap THEN positive ELSE negative),
              !.value = Ptr(IF swap THEN negative - positive
                            ELSE positive - negative)])

\* Exponentiate raises the two parts to the power, each on its own; big.Int.Exp
\* reads the parts, which are nil in an Infinite or NotANumber receiver.
Exponentiate(bn, exponent) ==
  IF bn.positive = Nil \/ bn.negative = Nil THEN Fail(Panic)
  ELSE
    LET positive == BigExp(bn.positive[1], exponent)
        negative == BigExp(bn.negative[1], exponent)
        swap == positive < negative
    IN  IF positive < bn.positive[1] \/ negative < bn.negative[1]
        THEN Fail(OverflowError)
        ELSE Ok([NewStruct(bn.precision, bn.rounding) EXCEPT
                   !.positive = Ptr(IF swap THEN negative ELSE positive),
                   !.negative = Ptr(IF swap THEN positive ELSE negative),
                   !.value = Ptr(IF swap THEN negative - positive
                                 ELSE positive - negative)])

\* v is the square of an integer; that integer
IsSquare(v) == \E r \in 0..v : r * r = v
IntegerRoot(v) == CHOOSE r \in 0..v : r * r = v

\* bigFloat.Sqrt followed by Text('g', -1), for the square of an integer
\* below 10^6: the root is exact and is written as its digits.
SqrtText(v) == CASE IsSquare(v) -> NatToString(IntegerRoot(v))

\* math.Sin, math.Cos and math.Tan of 0 followed by Text('g', -1)
SinText(v) == CASE v = 0 -> <<"0">>
CosText(v) == CASE v = 0 -> <<"1">>
TanText(v) == CASE v = 0 -> <<"0">>

\* SquareRoot calculates the square root of a BigNumber.
SquareRoot(bn) ==
  IF bn.isInf THEN Ok(InfStruct(bn))
  ELSE IF bn.isNan THEN Ok(NanStruct(bn))
  ELSE IF bn.value = Nil THEN Fail(Panic)
  ELSE IF bn.value[1] < 0 THEN Fail(UndefinedOperationError)
  ELSE IF IsZero(bn).b THEN Ok(bn)
  ELSE NewBigNumber(SqrtText(bn.value[1]), bn.precision, bn.rounding, 0)

\* Sine, Cosine, Tangent: the text of the float64 result is parsed.
Sine(bn) ==
  IF bn.isInf \/ bn.isNan THEN Fail(PlainError)
  ELSE IF bn.value = Nil THEN Fail(Panic)
  ELSE NewBigNumber(SinText(bn.value[1]), bn.precision, bn.rounding, 0)

Cosine(bn) ==
  IF bn.isInf \/ bn.isNan THEN Fail(PlainError)
  ELSE IF bn.value = Nil THEN Fail(Panic)
  ELSE NewBigNumber(CosText(bn.value[1]), bn.precision, bn.rounding, 0)

Tangent(bn) ==
  IF bn.isInf \/ bn.isNan THEN Fail(PlainError)
  ELSE IF bn.value = Nil THEN Fail(Panic)
  ELSE NewBigNumber(TanText(bn.value[1]), bn.precision, bn.rounding, 0)

\* one pass of the loop of Exp: the locals after it, and whether it breaks
ExpPass(xInt, l) ==
  LET termInt == BigDiv(l.termInt * xInt, l.i)
  IN  [termInt |-> termInt,
       resultInt |-> l.resultInt + termInt,
       i |-> IF termInt < 1 THEN l.i ELSE l.i + 1,
       break |-> termInt < 1]

\* the locals of Exp before its loop
ExpLocals == [termInt |-> 1, resultInt |-> 1, i |-> 1, break |-> FALSE]

\* the loop of Exp: the locals when it breaks
RECURSIVE ExpLoop(_, _)
ExpLoop(xInt, l) ==
  IF ExpPass(xInt, l).break THEN ExpPass(xInt, l)
  ELSE ExpLoop(xInt, ExpPass(xInt, l))

\* what Exp returns once its loop has left resultInt
ExpResult(bn, resultInt) ==
  LET result == NewBigNumber(IntToString(resultInt), bn.precision, bn.rounding, 0).bn[1]
  IN  Ok([result EXCEPT !.value = Ptr(applyRounding(bn, result.value[1]))])

\* Exp approximates the exponential function using Taylor series.
Exp(bn) ==
  IF bn.isInf \/ bn.isNan THEN Ok(NanStruct(bn))
  ELSE IF bn.value = Nil THEN Fail(Panic)
  ELSE ExpResult(bn, ExpLoop(bn.value[1], ExpLocals).resultInt)

\* expYInt of Log: the value of bn.Exp(), rounded once more
LogExpY(bn) == applyRounding(bn, Exp(bn).bn[1].value[1])

\* the locals of Log before its loop
LogLocals == [yInt |-> 1, deltaInt |-> 0, break |-> FALSE]

\* one pass of the loop of Log, which divides by expYInt: the locals after it
LogPass(xInt, expYInt, l) ==
  LET deltaInt == BigDiv(expYInt - xInt, expYInt)
  IN  [yInt |-> l.yInt - deltaInt, deltaInt |-> deltaInt, break |-> deltaInt < 1]

\* what Log returns once its loop has left yInt
LogResult(bn, yInt) ==
  LET result == NewBigNumber(IntToString(yInt), bn.precision, bn.rounding, 0).bn[1]
  IN  Ok([result EXCEPT !.value = Ptr(applyRounding(bn, result.value[1]))])

\* Log approximates the natural logarithm.  Every pass of its loop computes
\* expYInt from the receiver again, so a pass that does not break is
\* followed by the same pass for ever.
Log(bn) ==
  IF bn.isInf \/ bn.isNan THEN Ok(NanStruct(bn))
  ELSE IF IsZero(bn).err = Panic THEN Fail(Panic)
  ELSE IF IsZero(bn).b THEN Fail(UndefinedOperationError)
  ELSE IF bn.value[1] < 0 THEN Fail(UndefinedOperationError)
  ELSE IF LogExpY(bn) = 0 THEN Fail(Panic)
  ELSE IF ~LogPass(bn.value[1], LogExpY(bn), LogLocals).break THEN Fail(NoReturn)
  ELSE LogResult(bn, LogPass(bn.value[1], LogExpY(bn), LogLocals).yInt)

\* AbsoluteValue returns the absolute value of a BigNumber; bn.value.Sign()
\* reads the value, which is nil in an Infinite or NotANumber receiver.
AbsoluteValue(bn) ==
  IF bn.value = Nil THEN Fail(Panic)
  ELSE Ok([NewStruct(bn.precision, bn.rounding) EXCEPT
             !.value = Ptr(IF bn.value[1] < 0 THEN -bn.value[1] ELSE bn.value[1])])

-----------------------------------------------------------------------------
(* Inputs.                                                                 *)

\* the characters of the texts given to the parser: digits, the sign, the
\* point, a second sign and a character that belongs to no number
Alphabet == {"0", "1", "5", "-", ".", "+", "x"}

RECURSIVE TextsOfLen(_)
TextsOfLen(n) ==
  IF n = 0 THEN {<<>>}
  ELSE {Append(s, c) : s \in TextsOfLen(n - 1), c \in Alphabet}

SpecialTexts == {<<"i", "n", "f">>, <<"I", "N", "F">>, <<"n", "a", "n">>, <<"N", "a", "N">>}

Texts == UNION {TextsOfLen(n) : n \in 0..MaxLen} \cup SpecialTexts

Precisions == 0..MaxPrec

\* what a big.Int may hold after a SetString that failed
UndefinedInts == {0, 1}

\* the operands of the arithmetic: what NewBigNumber returns for a sign, a
\* digit and, optionally, a point and a digit, and for the special texts
OperandDigits == {"0", "1", "5"}

OperandTexts ==
  {sgn \o <<i>> \o f : sgn \in {<<>>, <<"-">>}, i \in OperandDigits,
                       f \in {<<>>} \cup {<<".", d>> : d \in OperandDigits}}
    \cup {<<"i", "n", "f">>, <<"n", "a", "n">>}

Operands ==
  {NewBigNumber(t, p, r, 0).bn[1] : t \in OperandTexts, p \in Precisions, r \in RoundingMode}

-----------------------------------------------------------------------------
(* The outcome of the last call: the operation, its error (NoError, an     *)
(* ErrorType or Panic), the *BigNumber, the string or the bool it         *)
(* returned, and the integer argument it was given.                        *)

Outcome(op, err, bn, str) ==
  [op |-> op, err |-> err, bn |-> bn, str |-> str, b |-> FALSE, n |-> 0]
NoOutcome == Outcome("none", NoError, Nil, <<>>)
NoInput == [str |-> <<>>, precision |-> 0, rounding |-> RoundUp]

\* the locals of the call under way: none
NoLoop == [i |-> 0]

\* the big.Int objects allocated: none
NoHeap == <<>>

-----------------------------------------------------------------------------
(* SpecParse: a text, a precision and a rounding mode are given to         *)
(* NewBigNumber; the value it returns is formatted by String and the text  *)
(* is given to NewBigNumber again.                                         *)

InitParse ==
  /\ pc = "input"
  /\ input \in [str : Texts, precision : Precisions, rounding : RoundingMode]
  /\ x = Nil
  /\ y = Nil
  /\ out = NoOutcome
  /\ loop = NoLoop
  /\ heap = NoHeap

DoNewBigNumber ==
  /\ pc = "input"
  /\ \E undef \in UndefinedInts :
       LET r == NewBigNumber(input.str, input.precision, input.rounding, undef)
       IN  /\ out' = Outcome("NewBigNumber", r.err, r.bn, <<>>)
           /\ x' = r.bn
  /\ pc' = "parsed"
  /\ UNCHANGED <<input, y, loop, heap>>

DoString ==
  /\ pc = "parsed"
  /\ x # Nil
  /\ out' = Outcome("String", String(x[1]).err, Nil, String(x[1]).str)
  /\ pc' = "printed"
  /\ UNCHANGED <<input, x, y, loop, heap>>

DoReparse ==
  /\ pc = "printed"
  /\ out.err = NoError
  /\ \E undef \in UndefinedInts :
       LET r == NewBigNumber(out.str, x[1].precision, x[1].rounding, undef)
       IN  /\ out' = Outcome("Reparse", r.err, r.bn, out.str)
           /\ y' = r.bn
  /\ pc' = "reparsed"
  /\ UNCHANGED <<input, x, loop, heap>>

NextParse == DoNewBigNumber \/ DoString \/ DoReparse

SpecParse == InitParse /\ [][NextParse]_vars

-----------------------------------------------------------------------------
(* Spec: two values returned by NewBigNumber are the operands of one       *)
(* arithmetic operation.                                                   *)

Init ==
  /\ pc = "ready"
  /\ input = NoInput
  /\ x \in {Ptr(v) : v \in Operands}
  /\ y \in {Ptr(v) : v \in Operands}
  /\ out = NoOutcome
  /\ loop = NoLoop
  /\ heap = NoHeap

\* the outcome of a call that returned r
Returned(op, r) == Outcome(op, r.err, r.bn, <<>>)

DoAdd ==
  /\ pc = "ready"
  /\ out' = Returned("Add", Add(x[1], y[1]))
  /\ pc' = "done"
  /\ UNCHANGED <<input, x, y, loop, heap>>

DoSubtract ==
  /\ pc = "ready"
  /\ out' = Returned("Subtract", Subtract(x[1], y[1]))
  /\ pc' = "done"
  /\ UNCHANGED <<input, x, y, loop, heap>>

DoMultiply ==
  /\ pc = "ready"
  /\ out' = Returned("Multiply", Multiply(x[1], y[1]))
  /\ pc' = "done"
  /\ UNCHANGED <<input, x, y, loop, heap>>

DoDivide ==
  /\ pc = "ready"
  /\ out' = Returned("Divide", Divide(x[1], y[1]))
  /\ pc' = "done"
  /\ UNCHANGED <<input, x, y, loop, heap>>

DoModulo ==
  /\ pc = "ready"
  /\ out' = Returned("Modulo", Modulo(x[1], y[1]))
  /\ pc' = "done"
  /\ UNCHANGED <<input, x, y, loop, heap>>

\* the precisions given to Round
TargetPrecisions == 0..(MaxPrec + 1)

DoRound ==
  /\ pc = "ready"
  /\ \E precision \in TargetPrecisions :
       out' = [Returned("Round", Round(x[1], precision)) EXCEPT !.n = precision]
  /\ pc' = "done"
  /\ UNCHANGED <<input, x, y, loop, heap>>

\* the outcome of a comparison that returned r
Compared(op, r) == [Outcome(op, r.err, Nil, <<>>) EXCEPT !.b = r.b]

DoEqual ==
  /\ pc = "ready"
  /\ out' = Compared("Equal", Equal(x[1], y[1]))
  /\ pc' = "done"
  /\ UNCHANGED <<input, x, y, loop, heap>>

DoLessThan ==
  /\ pc = "ready"
  /\ out' = Compared("LessThan", LessThan(x[1], y[1]))
  /\ pc' = "done"
  /\ UNCHANGED <<input, x, y, loop, heap>>

DoGreaterThan ==
  /\ pc = "ready"
  /\ out' = Compared("GreaterThan", GreaterThan(x[1], y[1]))
  /\ pc' = "done"
  /\ UNCHANGED <<input, x, y, loop, heap>>

DoLessOrEqual ==
  /\ pc = "ready"
  /\ out' = Compared("LessOrEqual", LessOrEqual(x[1], y[1]))
  /\ pc' = "done"
  /\ UNCHANGED <<input, x, y, loop, heap>>

DoGreaterOrEqual ==
  /\ pc = "ready"
  /\ out' = Compared("GreaterOrEqual", GreaterOrEqual(x[1], y[1]))
  /\ pc' = "done"
  /\ UNCHANGED <<input, x, y, loop, heap>>

\* the exponents given to Exponentiate
Exponents == -1..2

DoExponentiate ==
  /\ pc = "ready"
  /\ \E exponent \in Exponents :
       out' = [Returned("Exponentiate", Exponentiate(x[1], exponent))
                 EXCEPT !.n = exponent]
  /\ pc' = "done"
  /\ UNCHANGED <<input, x, y, loop, heap>>

\* the receivers whose float64 results the model writes out: the special
\* values, the values below zero and the squares for SquareRoot, the special
\* values and zero for Sine, Cosine and Tangent
SqrtReceiver(bn) ==
  IF bn.value = Nil THEN TRUE
  ELSE IF bn.value[1] < 0 THEN TRUE ELSE IsSquare(bn.value[1])
TrigReceiver(bn) == IF bn.value = Nil THEN TRUE ELSE bn.value[1] = 0

DoSquareRoot ==
  /\ pc = "ready"
  /\ SqrtReceiver(x[1])
  /\ out' = Returned("SquareRoot", SquareRoot(x[1]))
  /\ pc' = "done"
  /\ UNCHANGED <<input, x, y, loop, heap>>

DoSine ==
  /\ pc = "ready"
  /\ TrigReceiver(x[1])
  /\ out' = Returned("Sine", Sine(x[1]))
  /\ pc' = "done"
  /\ UNCHANGED <<input, x, y, loop, heap>>

DoCosine ==
  /\ pc = "ready"
  /\ TrigReceiver(x[1])
  /\ out' = Returned("Cosine", Cosine(x[1]))
  /\ pc' = "done"
  /\ UNCHANGED <<input, x, y, loop, heap>>

DoTangent ==
  /\ pc = "ready"
  /\ TrigReceiver(x[1])
  /\ out' = Returned("Tangent", Tangent(x[1]))
  /\ pc' = "done"
  /\ UNCHANGED <<input, x, y, loop, heap>>

\* the receivers given to Log and Exp: the special values and the values
\* up to MaxLoopOperand, whose Taylor terms stay small
LoopReceiver(bn) == IF bn.value = Nil THEN TRUE ELSE bn.value[1] <= MaxLoopOperand

DoLog ==
  /\ pc = "ready"
  /\ LoopReceiver(x[1])
  /\ out' = Returned("Log", Log(x[1]))
  /\ pc' = "done"
  /\ UNCHANGED <<input, x, y, loop, heap>>

DoExp ==
  /\ pc = "ready"
  /\ LoopReceiver(x[1])
  /\ out' = Returned("Exp", Exp(x[1]))
  /\ pc' = "done"
  /\ UNCHANGED <<input, x, y, loop, heap>>

DoAbsoluteValue ==
  /\ pc = "ready"
  /\ out' = Returned("AbsoluteValue", AbsoluteValue(x[1]))
  /\ pc' = "done"
  /\ UNCHANGED <<input, x, y, loop, heap>>

Next ==
  \/ DoAdd \/ DoSubtract \/ DoMultiply \/ DoDivide \/ DoModulo
  \/ DoRound
  \/ DoEqual \/ DoLessThan \/ DoGreaterThan \/ DoLessOrEqual \/ DoGreaterOrEqual
  \/ DoExponentiate
  \/ DoSquareRoot \/ DoSine \/ DoCosine \/ DoTangent \/ DoLog \/ DoExp
  \/ DoAbsoluteValue

Spec == Init /\ [][Next]_vars

-----------------------------------------------------------------------------
(* SpecLoop: one call of Exp or of Log, a pass of its loop at a time.  A   *)
(* call under way goes on: the next step of the call is taken.             *)

InitLoop ==
  /\ pc = "ready"
  /\ input = NoInput
  /\ x \in {Ptr(v) : v \in {o \in Operands : LoopReceiver(o)}}
  /\ y = Nil
  /\ out = NoOutcome
  /\ loop = NoLoop
  /\ heap = NoHeap

\* Exp up to its loop
ExpEnter ==
  /\ pc = "ready"
  /\ IF x[1].isInf \/ x[1].isNan
     THEN /\ out' = Returned("Exp", Ok(NanStruct(x[1])))
          /\ pc' = "done"
          /\ loop' = loop
     ELSE /\ out' = out
          /\ pc' = "Exp loop"
          /\ loop' = ExpLocals
  /\ UNCHANGED <<input, x, y, heap>>

\* one pass of the loop of Exp, and the return when it breaks
ExpIterate ==
  /\ pc = "Exp loop"
  /\ loop' = ExpPass(x[1].value[1], loop)
  /\ IF ExpPass(x[1].value[1], loop).break
     THEN /\ out' = Returned("Exp", ExpResult(x[1], ExpPass(x[1].value[1], loop).resultInt))
          /\ pc' = "done"
     ELSE /\ out' = out
          /\ pc' = pc
  /\ UNCHANGED <<input, x, y, heap>>

\* the locals of Log with those of the call of Exp it makes
LogFrame(l, expYInt, e) ==
  [yInt |-> l.yInt, deltaInt |-> l.deltaInt, expYInt |-> expYInt,
   termInt |-> e.termInt, resultInt |-> e.resultInt, i |-> e.i, break |-> e.break]

\* Log up to its first call of Exp
LogEnter ==
  /\ pc = "ready"
  /\ IF x[1].isInf \/ x[1].isNan
     THEN /\ out' = Returned("Log", Ok(NanStruct(x[1])))
          /\ pc' = "done"
          /\ loop' = loop
     ELSE IF x[1].value[1] <= 0
     THEN /\ out' = Returned("Log", Fail(UndefinedOperationError))
          /\ pc' = "done"
          /\ loop' = loop
     ELSE /\ out' = out
          /\ pc' = "Log Exp loop"
          /\ loop' = LogFrame(LogLocals, 0, ExpLocals)
  /\ UNCHANGED <<input, x, y, heap>>

\* one pass of the loop of the Exp that Log calls; when it breaks, Exp
\* returns and Log rounds the value once more into expYInt
LogExpIterate ==
  /\ pc = "Log Exp loop"
  /\ IF ExpPass(x[1].value[1], loop).break
     THEN /\ loop' = LogFrame(loop,
                            applyRounding(x[1],
                              ExpResult(x[1], ExpPass(x[1].value[1], loop).resultInt)
                                .bn[1].value[1]),
                            ExpPass(x[1].value[1], loop))
          /\ pc' = "Log loop"
     ELSE /\ loop' = LogFrame(loop, loop.expYInt, ExpPass(x[1].value[1], loop))
          /\ pc' = pc
  /\ UNCHANGED <<input, x, y, out, heap>>

\* one pass of the loop of Log, which panics on a zero expYInt: the return
\* when it breaks, and the next call of Exp when it does not
LogIterate ==
  /\ pc = "Log loop"
  /\ IF loop.expYInt = 0
     THEN /\ out' = Returned("Log", Fail(Panic))
          /\ pc' = "done"
          /\ loop' = loop
     ELSE IF LogPass(x[1].value[1], loop.expYInt, loop).break
     THEN /\ out' = Returned("Log",
                       LogResult(x[1], LogPass(x[1].value[1], loop.expYInt, loop).yInt))
          /\ pc' = "done"
          /\ loop' = LogFrame(LogPass(x[1].value[1], loop.expYInt, loop),
                              loop.expYInt, loop)
     ELSE /\ out' = out
          /\ pc' = "Log Exp loop"
          /\ loop' = LogFrame(LogPass(x[1].value[1], loop.expYInt, loop),
                              loop.expYInt, ExpLocals)
  /\ UNCHANGED <<input, x, y, heap>>

NextLoop == ExpEnter \/ ExpIterate \/ LogEnter \/ LogExpIterate \/ LogIterate

SpecLoop == InitLoop /\ [][NextLoop]_vars /\ WF_vars(NextLoop)

-----------------------------------------------------------------------------
(* SpecHeap: the big.Int objects behind the values.  heap is the sequence  *)
(* of the objects allocated, a *big.Int is the index of one, and x is the  *)
(* sequence of the values constructed so far, whose fields positive,       *)
(* negative and value hold such pointers.  The methods of big.Int write    *)
(* into their receiver; new(big.Int) allocates.                            *)

\* the value with the integers its pointers lead to
Deref(h, bn) ==
  [bn EXCEPT
     !.positive = IF bn.positive = Nil THEN Nil ELSE Ptr(h[bn.positive[1]]),
     !.negative = IF bn.negative = Nil THEN Nil ELSE Ptr(h[bn.negative[1]]),
     !.value = IF bn.value = Nil THEN Nil ELSE Ptr(h[bn.value[1]])]

\* what a call leaves: the heap, the *BigNumber and the error
Left(h, bn, err) == [heap |-> h, bn |-> bn, err |-> err]

\* a struct whose big.Int objects are all new: those of v, in the order
\* positive, negative, value
Store(h, v) ==
  LET hp == IF v.positive = Nil THEN h ELSE Append(h, v.positive[1])
      hn == IF v.negative = Nil THEN hp ELSE Append(hp, v.negative[1])
      hv == IF v.value = Nil THEN hn ELSE Append(hn, v.value[1])
  IN  Left(hv,
           Ptr([v EXCEPT
                  !.positive = IF v.positive = Nil THEN Nil ELSE Ptr(Len(hp)),
                  !.negative = IF v.negative = Nil THEN Nil ELSE Ptr(Len(hn)),
                  !.value = IF v.value = Nil THEN Nil ELSE Ptr(Len(hv))]),
           NoError)

\* applyRounding writes the rounded integer into the object it is given
applyRoundingAt(h, bn, a) == [h EXCEPT ![a] = applyRounding(bn, h[a])]

\* Add, Subtract and Multiply put the two parts and their difference into
\* new objects and round the last of them in place.
HeapCombine(h, bn, r) ==
  IF r.err # NoError THEN Left(h, Nil, r.err)
  ELSE LET s == Store(h, [r.bn[1] EXCEPT
                            !.value = Ptr(r.bn[1].positive[1] - r.bn[1].negative[1])])
       IN  Left(applyRoundingAt(s.heap, bn, s.bn[1].value[1]), s.bn, NoError)

HeapAdd(h, bn, other) == HeapCombine(h, bn, Add(Deref(h, bn), Deref(h, other)))
HeapSubtract(h, bn, other) == HeapCombine(h, bn, Subtract(Deref(h, bn), Deref(h, other)))
HeapMultiply(h, bn, other) == HeapCombine(h, bn, Multiply(Deref(h, bn), Deref(h, other)))

\* Round that rounds the receiver's own integer, without a copy
HeapRound_NoCopy(h, bn, precision) ==
  IF precision = bn.precision THEN Left(h, Ptr(bn), NoError)
  ELSE IF bn.value = Nil THEN Left(h, Nil, Panic)
  ELSE Left(applyRoundingAt(h, bn, bn.value[1]),
            Ptr([NewStruct(precision, bn.rounding) EXCEPT !.value = bn.value]),
            NoError)

\* Round returns the receiver itself for its own precision; otherwise
\* new(big.Int).Set(bn.value) is rounded in place.
HeapRound(h, bn, precision) ==
  IF precision = bn.precision THEN Left(h, Ptr(bn), NoError)
  ELSE IF bn.value = Nil THEN Left(h, Nil, Panic)
  ELSE Left(applyRoundingAt(Append(h, h[bn.value[1]]), bn, Len(h) + 1),
            Ptr([NewStruct(precision, bn.rounding) EXCEPT !.value = Ptr(Len(h) + 1)]),
            NoError)

\* AbsoluteValue and Exponentiate fill their result with new objects.
HeapAbsoluteValue(h, bn) ==
  IF AbsoluteValue(Deref(h, bn)).err # NoError
  THEN Left(h, Nil, AbsoluteValue(Deref(h, bn)).err)
  ELSE Store(h, AbsoluteValue(Deref(h, bn)).bn[1])

HeapExponentiate(h, bn, exponent) ==
  IF Exponentiate(Deref(h, bn), exponent).err # NoError
  THEN Left(h, Nil, Exponentiate(Deref(h, bn), exponent).err)
  ELSE Store(h, Exponentiate(Deref(h, bn), exponent).bn[1])

\* SquareRoot returns the receiver itself for zero, and what NewBigNumber
\* makes of the text of the root otherwise.
HeapSquareRoot(h, bn) ==
  IF SquareRoot(Deref(h, bn)).err # NoError
  THEN Left(h, Nil, SquareRoot(Deref(h, bn)).err)
  ELSE IF bn.isInf \/ bn.isNan THEN Store(h, SquareRoot(Deref(h, bn)).bn[1])
  ELSE IF IsZero(Deref(h, bn)).b THEN Left(h, Ptr(bn), NoError)
  ELSE Store(h, SquareRoot(Deref(h, bn)).bn[1])

\* Exp rounds in place the value of what NewBigNumber makes of resultInt.
HeapExp(h, bn) ==
  IF bn.isInf \/ bn.isNan THEN Store(h, NanStruct(bn))
  ELSE LET resultInt == ExpLoop(h[bn.value[1]], ExpLocals).resultInt
           s == Store(h, NewBigNumber(IntToString(resultInt), bn.precision,
                                      bn.rounding, 0).bn[1])
       IN  Left(applyRoundingAt(s.heap, bn, s.bn[1].value[1]), s.bn, NoError)

\* Log rounds in place the value of what Exp returned, and then the value
\* of what NewBigNumber makes of yInt.
HeapLog(h, bn) ==
  IF bn.isInf \/ bn.isNan THEN Store(h, NanStruct(bn))
  ELSE IF Log(Deref(h, bn)).err # NoError THEN Left(h, Nil, Log(Deref(h, bn)).err)
  ELSE LET e == HeapExp(h, bn)
           expYInt == e.bn[1].value[1]
           he == applyRoundingAt(e.heap, bn, expYInt)
           yInt == LogPass(h[bn.value[1]], he[expYInt], LogLocals).yInt
           s == Store(he, NewBigNumber(IntToString(yInt), bn.precision,
                                       bn.rounding, 0).bn[1])
       IN  Left(applyRoundingAt(s.heap, bn, s.bn[1].value[1]), s.bn, NoError)

\* Divide and Sine read their operands and return what NewBigNumber made,
\* as Modulo, Cosine and Tangent do.
HeapFresh(h, r) == IF r.err # NoError THEN Left(h, Nil, r.err) ELSE Store(h, r.bn[1])

\* String takes the absolute value of new(big.Int).Set(bn.value) in place.
HeapString(h, bn) ==
  IF bn.isInf \/ bn.isNan THEN Left(h, Nil, NoError)
  ELSE LET valueCopy == Len(h) + 1
           copied == Append(h, h[bn.value[1]])
       IN  Left([copied EXCEPT ![valueCopy] = Abs(copied[valueCopy])], Nil, NoError)

\* the most values constructed in one behaviour
MaxValues == 3

\* the largest integer in a value given to a further operation
MaxCell == 1000

\* every integer of the value is within MaxCell, and its precision is one
\* that NewBigNumber or Round was given
Small(h, bn) ==
  /\ bn.precision \in TargetPrecisions
  /\ \A f \in {bn.positive, bn.negative, bn.value} :
       IF f = Nil THEN TRUE ELSE Abs(h[f[1]]) <= MaxCell

\* the texts of the first value: a value above zero, one below zero with a
\* fraction, and a special value
HeapTexts == {<<"5">>, <<"-", "1", ".", "5">>, <<"n", "a", "n">>}

HeapOperands ==
  {NewBigNumber(t, p, r, 0).bn[1] : t \in HeapTexts, p \in Precisions, r \in RoundingMode}

InitHeap ==
  /\ pc = "ready"
  /\ input = NoInput
  /\ \E v \in HeapOperands : /\ x = Store(<<>>, v).bn
                          /\ heap = Store(<<>>, v).heap
  /\ y = Nil
  /\ out = NoOutcome
  /\ loop = NoLoop

\* the values constructed so far that a further operation may take
Values == {k \in DOMAIN x : Small(heap, x[k])}

\* a call that left r: its result, if any, is one more value; the objects
\* of a call without a result are garbage
Called(op, r) ==
  /\ out' = Outcome(op, r.err, r.bn, <<>>)
  /\ x' = x \o r.bn
  /\ heap' = IF r.bn = Nil THEN SubSeq(r.heap, 1, Len(heap)) ELSE r.heap
  /\ UNCHANGED <<pc, input, y, loop>>

CallAdd ==
  /\ Len(x) < MaxValues
  /\ \E k \in Values, j \in Values : Called("Add", HeapAdd(heap, x[k], x[j]))

CallSubtract ==
  /\ Len(x) < MaxValues
  /\ \E k \in Values, j \in Values : Called("Subtract", HeapSubtract(heap, x[k], x[j]))

CallMultiply ==
  /\ Len(x) < MaxValues
  /\ \E k \in Values, j \in Values : Called("Multiply", HeapMultiply(heap, x[k], x[j]))

CallRound ==
  /\ Len(x) < MaxValues
  /\ \E k \in Values, precision \in TargetPrecisions :
       Called("Round", HeapRound(heap, x[k], precision))

CallAbsoluteValue ==
  /\ Len(x) < MaxValues
  /\ \E k \in Values : Called("AbsoluteValue", HeapAbsoluteValue(heap, x[k]))

CallExponentiate ==
  /\ Len(x) < MaxValues
  /\ \E k \in Values, exponent \in Exponents :
       Called("Exponentiate", HeapExponentiate(heap, x[k], exponent))

CallSquareRoot ==
  /\ Len(x) < MaxValues
  /\ \E k \in Values :
       /\ SqrtReceiver(Deref(heap, x[k]))
       /\ Called("SquareRoot", HeapSquareRoot(heap, x[k]))

CallExp ==
  /\ Len(x) < MaxValues
  /\ \E k \in Values :
       /\ LoopReceiver(Deref(heap, x[k]))
       /\ Called("Exp", HeapExp(heap, x[k]))

CallString ==
  /\ Len(x) < MaxValues
  /\ \E k \in Values : Called("String", HeapString(heap, x[k]))

CallLog ==
  /\ Len(x) < MaxValues
  /\ \E k \in Values :
       /\ LoopReceiver(Deref(heap, x[k]))
       /\ Called("Log", HeapLog(heap, x[k]))

CallDivide ==
  /\ Len(x) < MaxValues
  /\ \E k \in Values, j \in Values :
       Called("Divide", HeapFresh(heap, Divide(Deref(heap, x[k]), Deref(heap, x[j]))))

CallSine ==
  /\ Len(x) < MaxValues
  /\ \E k \in Values :
       /\ TrigReceiver(Deref(heap, x[k]))
       /\ Called("Sine", HeapFresh(heap, Sine(Deref(heap, x[k]))))

\* Equal reads the two values, as the other comparisons do
CallEqual ==
  /\ Len(x) < MaxValues
  /\ \E k \in Values, j \in Values :
       /\ out' = Compared("Equal", Equal(Deref(heap, x[k]), Deref(heap, x[j])))
       /\ UNCHANGED <<pc, input, x, y, loop, heap>>

NextHeap ==
  \/ CallAdd \/ CallSubtract \/ CallMultiply \/ CallRound \/ CallAbsoluteValue
  \/ CallExponentiate \/ CallSquareRoot \/ CallExp \/ CallString
  \/ CallLog \/ CallDivide \/ CallSine \/ CallEqual

SpecHeap == InitHeap /\ [][NextHeap]_vars


-----------------------------------------------------------------------------
(* What the claims say of the parser.                                      *)

IsFinite(bn) == ~bn.isInf /\ ~bn.isNan

\* the text is '-'? digit+ ('.' digit+)?
InGrammar(str) ==
  LET body == IF Len(str) > 0 /\ str[1] = "-" THEN Tail(str) ELSE str
      dot == IndexOf(body, ".")
      int == IF dot = 0 THEN body ELSE SubSeq(body, 1, dot - 1)
      frac == IF dot = 0 THEN <<>> ELSE SubSeq(body, dot + 1, Len(body))
  IN  /\ Len(int) > 0
      /\ AllDigits(int)
      /\ AllDigits(frac)
      /\ dot # 0 => Len(frac) > 0

\* the text has a character that no number has, a sign that does not lead,
\* or more than one point
OutsideGrammar(str) ==
  LET body == IF Len(str) > 0 /\ str[1] = "-" THEN Tail(str) ELSE str
  IN  /\ ToLower(str) \notin {<<"i", "n", "f">>, <<"n", "a", "n">>}
      /\ \/ \E i \in 1..Len(body) : ~IsDigit(body[i]) /\ body[i] # "."
         \/ Cardinality({i \in 1..Len(body) : body[i] = "."}) > 1

GrammarSign(str) == IF str[1] = "-" THEN -1 ELSE 1
GrammarInt(str) ==
  LET body == IF str[1] = "-" THEN Tail(str) ELSE str
  IN  IF IndexOf(body, ".") = 0 THEN body ELSE SubSeq(body, 1, IndexOf(body, ".") - 1)
GrammarFrac(str) ==
  IF IndexOf(str, ".") = 0 THEN <<>> ELSE SubSeq(str, IndexOf(str, ".") + 1, Len(str))

\* the fractional digits cut or zero-padded to exactly p digits
FracAtPrecision(frac, p) ==
  IF Len(frac) >= p THEN SubSeq(frac, 1, p) ELSE frac \o Zeros(p - Len(frac))

\* sign * (integerDigits * 10^p + fractionalDigitsAsInteger)
GrammarMagnitude(str, p) ==
  GrammarSign(str)
    * (DigitsToInt(GrammarInt(str)) * 10 ^ p
       + DigitsToInt(FracAtPrecision(GrammarFrac(str), p)))

\* the text with its fractional digits cut or zero-padded to p digits
AtPrecision(str, p) ==
  (IF str[1] = "-" THEN <<"-">> ELSE <<>>) \o GrammarInt(str)
    \o (IF p = 0 THEN <<>> ELSE <<".">> \o FracAtPrecision(GrammarFrac(str), p))

\* C1: for a text of the grammar and any precision p, NewBigNumber returns
\* a finite value whose magnitude is
\* sign * (integerDigits * 10^p + fractionalDigitsAsInteger).
C1_ParseMagnitude ==
  (out.op = "NewBigNumber" /\ InGrammar(input.str)) =>
     /\ out.err = NoError
     /\ IsFinite(out.bn[1])
     /\ out.bn[1].value = Ptr(GrammarMagnitude(input.str, input.precision))

\* C2: fractional digits beyond the precision are cut and missing ones are
\* zero-padded: the text parses to the value that the text with exactly
\* `precision` fractional digits parses to.
C2_TruncateOrPad ==
  (out.op = "NewBigNumber" /\ InGrammar(input.str) /\ GrammarFrac(input.str) # <<>>) =>
     /\ out.err = NoError
     /\ \A undef \in UndefinedInts :
          out.bn = NewBigNumber(AtPrecision(input.str, input.precision),
                                input.precision, input.rounding, undef).bn

\* the half of C2 that is about padding: fewer fractional digits than the
\* precision are zero-padded
C2_PadOnly ==
  (/\ out.op = "NewBigNumber"
   /\ InGrammar(input.str)
   /\ GrammarFrac(input.str) # <<>>
   /\ Len(GrammarFrac(input.str)) <= input.precision) =>
     /\ out.err = NoError
     /\ \A undef \in UndefinedInts :
          out.bn = NewBigNumber(AtPrecision(input.str, input.precision),
                                input.precision, input.rounding, undef).bn

\* C3: NewBigNumber fails with InvalidInput, and returns no value, for the
\* empty text and for every text outside the grammar.
C3_InvalidInput ==
  (out.op = "NewBigNumber" /\ (input.str = <<>> \/ OutsideGrammar(input.str))) =>
     /\ out.err = InvalidInputError
     /\ out.bn = Nil

\* C4: a finite value that String formats and NewBigNumber parses again, at
\* the value's precision and rounding mode, is Equal to the value.
C4_RoundTrip ==
  (pc = "reparsed" /\ IsFinite(x[1])) =>
     /\ out.err = NoError
     /\ Equal(y[1], x[1]) = Bool(TRUE)

-----------------------------------------------------------------------------
(* What the claims say of the arithmetic.                                  *)

BothFinite == IsFinite(x[1]) /\ IsFinite(y[1])
SamePrecision == x[1].precision = y[1].precision

\* C5: for two finite operands of equal precision p, under every rounding
\* mode, Add returns a value of precision p whose magnitude is the sum of
\* the two magnitudes and Subtract one whose magnitude is their difference.
C5_AddSubtractExact ==
  (out.op \in {"Add", "Subtract"} /\ BothFinite /\ SamePrecision) =>
     /\ out.err = NoError
     /\ out.bn[1].precision = x[1].precision
     /\ out.bn[1].value =
          Ptr(IF out.op = "Add" THEN x[1].value[1] + y[1].value[1]
                                ELSE x[1].value[1] - y[1].value[1])

\* C5 for operands that are not both zero (two zero operands are rejected
\* before anything is added): the rounding applied to the sum breaks it too
C5_ExactUnlessBothZero ==
  (/\ out.op \in {"Add", "Subtract"}
   /\ BothFinite
   /\ SamePrecision
   /\ ~(IsZero(x[1]).b /\ IsZero(y[1]).b)) =>
     /\ out.err = NoError
     /\ out.bn[1].precision = x[1].precision
     /\ out.bn[1].value =
          Ptr(IF out.op = "Add" THEN x[1].value[1] + y[1].value[1]
                                ELSE x[1].value[1] - y[1].value[1])

\* two results (*BigNumber, error) are the same outcome with Equal values
SameResult(r1, r2) ==
  /\ r1.err = r2.err
  /\ r1.err = NoError => Equal(r1.bn[1], r2.bn[1]) = Bool(TRUE)

\* Add of a result and a value, and of a value and a result
AddLeft(r, c) == IF r.err # NoError THEN r ELSE Add(r.bn[1], c)
AddRight(a, r) == IF r.err # NoError THEN r ELSE Add(a, r.bn[1])

\* C6: for all finite a, b, c at equal precision, Add(a,b) equals Add(b,a)
\* and Add(Add(a,b),c) equals Add(a,Add(b,c)).
C6_AddCommutativeAssociative ==
  (pc = "ready" /\ BothFinite /\ SamePrecision) =>
     /\ SameResult(Add(x[1], y[1]), Add(y[1], x[1]))
     /\ \A c \in {v \in Operands : IsFinite(v) /\ v.precision = x[1].precision} :
          SameResult(AddLeft(Add(x[1], y[1]), c), AddRight(x[1], Add(y[1], c)))

\* C7: for finite operands at precisions p1 and p2, Multiply returns a value
\* of precision p1 + p2 whose magnitude is the product of the magnitudes.
C7_MultiplyExact ==
  (out.op = "Multiply" /\ BothFinite) =>
     /\ out.err = NoError
     /\ out.bn[1].precision = x[1].precision + y[1].precision
     /\ out.bn[1].value = Ptr(x[1].value[1] * y[1].value[1])

\* C7 for operands of equal precision that are not both zero (the operands
\* Multiply does not reject) and a rounding mode that leaves the value alone
C7_ExactWhenAccepted ==
  (/\ out.op = "Multiply"
   /\ BothFinite
   /\ SamePrecision
   /\ ~(IsZero(x[1]).b /\ IsZero(y[1]).b)
   /\ x[1].rounding \in {RoundUp, RoundDown}) =>
     /\ out.err = NoError
     /\ out.bn[1].precision = x[1].precision + y[1].precision
     /\ out.bn[1].value = Ptr(x[1].value[1] * y[1].value[1])

\* C8: Multiply of two finite operands of different precisions succeeds,
\* with a result of precision p1 + p2.
C8_MultiplyMixedPrecision ==
  (out.op = "Multiply" /\ BothFinite /\ ~SamePrecision) =>
     /\ out.err = NoError
     /\ out.bn[1].precision = x[1].precision + y[1].precision

C10_SpecialOperands ==
  (out.op \in {"Add", "Subtract", "Multiply", "Divide", "Modulo"} /\ ~BothFinite) =>
     /\ out.err = UndefinedOperationError
     /\ out.bn = Nil

\* the part of C10 the code keeps: with operands of equal precision
C10_SpecialOperandsSamePrecision ==
  (/\ out.op \in {"Add", "Subtract", "Multiply", "Divide", "Modulo"}
   /\ ~BothFinite
   /\ SamePrecision) =>
     /\ out.err = UndefinedOperationError
     /\ out.bn = Nil

\* power of ten and sign, for the statements below
Pow10(n) == 10 ^ n
SignOf(n) == IF n < 0 THEN -1 ELSE IF n > 0 THEN 1 ELSE 0

\* the divisor is a finite zero, the operands are finite at one precision
ZeroDivisor == BothFinite /\ SamePrecision /\ y[1].value = Ptr(0)

\* C11: Divide(a, zero) and Modulo(a, zero) fail with DivisionByZero for any
\* finite a whose precision equals the zero divisor's precision.
C11_DivisionByZero ==
  (out.op \in {"Divide", "Modulo"} /\ ZeroDivisor) =>
     /\ out.err = DivisionByZeroError
     /\ out.bn = Nil

\* C11 as the code has it: Divide(a, zero) and Modulo(a, zero) fail with
\* DivisionByZero for any finite non-zero a of the divisor's precision, and
\* with UndefinedOperation when a is zero as well.
C11_DivisionByZeroNonZeroDividend ==
  (out.op \in {"Divide", "Modulo"} /\ ZeroDivisor) =>
     /\ out.err = IF x[1].value = Ptr(0) THEN UndefinedOperationError
                  ELSE DivisionByZeroError
     /\ out.bn = Nil

\* a state where Modulo was given a non-zero dividend and a zero divisor
C11_Witness ==
  /\ out.op = "Modulo"
  /\ ZeroDivisor
  /\ x[1].value # Ptr(0)
  /\ out.err = DivisionByZeroError

\* the divisor is finite and not zero, the operands are finite at one precision
NonZeroDivisor == BothFinite /\ SamePrecision /\ y[1].value # Ptr(0)

\* the quotient of the magnitudes, scaled by the precision, truncated
ScaledQuotient ==
  (Abs(x[1].value[1]) * Pow10(x[1].precision)) \div Abs(y[1].value[1])

\* C12: Divide of two finite operands of equal precision p with a non-zero
\* divisor returns a finite value at precision p whose magnitude is the
\* integer quotient of a.magnitude * 10^p by b.magnitude, adjusted by the
\* rounding mode by at most one unit, with the algebraic sign.
C12_DivideQuotient ==
  (out.op = "Divide" /\ NonZeroDivisor) =>
     /\ out.err = NoError
     /\ out.bn # Nil
     /\ IsFinite(out.bn[1])
     /\ out.bn[1].precision = x[1].precision
     /\ Abs(out.bn[1].value[1]) \in {ScaledQuotient, ScaledQuotient + 1}
     /\ \/ out.bn[1].value[1] = 0
        \/ SignOf(out.bn[1].value[1]) = SignOf(x[1].value[1]) * SignOf(y[1].value[1])

\* dividend - divisor * truncatedQuotient, on the magnitudes
TruncatedRemainder ==
  LET a == x[1].value[1]
      b == y[1].value[1]
  IN  SignOf(a) * (Abs(a) % Abs(b))

\* C13: Modulo returns dividend - divisor * truncatedQuotient at the
\* dividend's precision: it has the dividend's sign and is smaller in
\* absolute value than the divisor.
C13_ModuloRemainder ==
  (out.op = "Modulo" /\ NonZeroDivisor) =>
     /\ out.err = NoError
     /\ out.bn # Nil
     /\ IsFinite(out.bn[1])
     /\ out.bn[1].precision = x[1].precision
     /\ out.bn[1].value = Ptr(TruncatedRemainder)
     /\ Abs(out.bn[1].value[1]) < Abs(y[1].value[1])

\* Round was applied to a finite x with a target above / below its precision
RoundedUpward == out.op = "Round" /\ IsFinite(x[1]) /\ out.n > x[1].precision
RoundedDownward == out.op = "Round" /\ IsFinite(x[1]) /\ out.n < x[1].precision

\* Round returned a finite value at the target precision with magnitude m
RoundReturned(m) ==
  /\ out.err = NoError
  /\ out.bn # Nil
  /\ IsFinite(out.bn[1])
  /\ out.bn[1].precision = out.n
  /\ out.bn[1].value = Ptr(m)

\* C14: Round(t) of a finite x with t above x's precision p returns, under
\* every rounding mode, the magnitude x.magnitude * 10^(t - p) at precision t.
C14_RoundToHigherPrecision ==
  RoundedUpward =>
     RoundReturned(x[1].value[1] * Pow10(out.n - x[1].precision))

\* the magnitude v with its last digits, worth scale, discarded under a mode
Discard(v, scale, mode) ==
  LET q == Abs(v) \div scale
      r == Abs(v) % scale
      up == CASE mode = RoundDown -> FALSE
              [] mode = RoundUp -> r # 0
              [] mode = RoundToNearest -> 2 * r >= scale
              [] mode = RoundToEven -> 2 * r > scale \/ (2 * r = scale /\ q % 2 = 1)
  IN  SignOf(v) * (IF up THEN q + 1 ELSE q)

\* what Round to a lower precision is to return for x under the mode
Discarded(mode) ==
  Discard(x[1].value[1], Pow10(x[1].precision - out.n), mode)

\* C15: Round to a lower precision under RoundToNearest returns the nearest
\* value at the target precision, ties going away from zero.
C15_RoundToNearest ==
  (RoundedDownward /\ x[1].rounding = RoundToNearest) =>
     RoundReturned(Discarded(RoundToNearest))

\* C16: Round to a lower precision under RoundDown discards the extra digits
\* (toward zero); under RoundUp it moves away from zero when any discarded
\* digit is not zero.
C16_RoundDownRoundUp ==
  (RoundedDownward /\ x[1].rounding \in {RoundDown, RoundUp}) =>
     RoundReturned(Discarded(x[1].rounding))

\* C17: Round to a lower precision under RoundToEven is RoundToNearest except
\* on an exact half, which goes to the neighbour whose last digit is even.
C17_RoundToEven ==
  (RoundedDownward /\ x[1].rounding = RoundToEven) =>
     RoundReturned(Discarded(RoundToEven))

\* C18: Round never fails, for a Finite, Infinite or NotANumber value and any
\* target; the result has the target precision, and the value's own
\* precision as target returns an equivalent value.
C18_RoundNeverFails ==
  out.op = "Round" =>
     /\ out.err = NoError
     /\ out.bn # Nil
     /\ out.bn[1].precision = out.n
     /\ out.bn[1].isInf = x[1].isInf
     /\ out.bn[1].isNan = x[1].isNan
     /\ out.n = x[1].precision => out.bn = x

\* the comparisons, and the number of true values among three booleans
Comparisons == {"Equal", "LessThan", "GreaterThan", "LessOrEqual", "GreaterOrEqual"}
CountTrue(p, q, r) ==
  (IF p THEN 1 ELSE 0) + (IF q THEN 1 ELSE 0) + (IF r THEN 1 ELSE 0)

\* the comparison op made on the stored magnitudes a and b directly
Direct(op, a, b) ==
  CASE op = "Equal" -> a = b
    [] op = "LessThan" -> a < b
    [] op = "GreaterThan" -> a > b
    [] op = "LessOrEqual" -> a <= b
    [] op = "GreaterOrEqual" -> a >= b

Kind(bn) == IF bn.isInf THEN "Infinite" ELSE IF bn.isNan THEN "NotANumber" ELSE "Finite"
Mixed == Kind(x[1]) # Kind(y[1])

\* C20: comparisons of two values of different kinds follow one total order:
\* each returns a boolean, exactly one of LessThan(a,b), Equal(a,b),
\* GreaterThan(a,b) is true, LessThan(a,b) = GreaterThan(b,a), every Finite
\* value is LessThan Infinite and Infinite is GreaterThan every Finite value.
C20_MixedTotalOrder ==
  (out.op \in Comparisons /\ Mixed) =>
     /\ out.err = NoError
     /\ CountTrue(LessThan(x[1], y[1]).b, Equal(x[1], y[1]).b,
                  GreaterThan(x[1], y[1]).b) = 1
     /\ LessThan(x[1], y[1]).b = GreaterThan(y[1], x[1]).b
     /\ (Kind(x[1]) = "Finite" /\ Kind(y[1]) = "Infinite" /\ out.op = "LessThan") => out.b
     /\ (Kind(x[1]) = "Infinite" /\ Kind(y[1]) = "Finite" /\ out.op = "GreaterThan") => out.b

\* the part of C20 the code keeps: Infinite against NotANumber returns a
\* boolean, and exactly Equal of the three holds
C20_InfiniteAgainstNotANumber ==
  (out.op \in Comparisons /\ Mixed /\ Kind(x[1]) # "Finite" /\ Kind(y[1]) # "Finite") =>
     /\ out.err = NoError
     /\ out.b = (out.op \in {"Equal", "LessOrEqual", "GreaterOrEqual"})

-----------------------------------------------------------------------------
(* What the claims say of formatting and of the functions of one value.    *)

\* the digits of n, padded on the left with zeros to k digits at least
PadLeft(str, k) == IF Len(str) >= k THEN str ELSE Zeros(k - Len(str)) \o str

\* the decimal text of the magnitude v at the precision: the sign, the
\* digits of |v|, a point before the last precision digits
Render(v, precision) ==
  LET sign == IF v < 0 THEN <<"-">> ELSE <<>>
      digits == PadLeft(NatToString(Abs(v)), precision + 1)
      k == Len(digits) - precision
  IN  IF precision = 0 THEN sign \o digits
      ELSE sign \o SubSeq(digits, 1, k) \o <<".">> \o SubSeq(digits, k + 1, Len(digits))

\* C21: String renders a Finite value as the sign, then the digits of
\* |magnitude| with a decimal point precision digits from the right, padded
\* on the left with zeros when there are fewer digits than the precision
\* (5 at precision 3 is "0.005"), and with no fractional part at precision
\* zero; Infinite renders "Infinity" and NotANumber "NaN".
C21_ToDecimalString ==
  out.op = "String" =>
     /\ out.err = NoError
     /\ out.str = IF x[1].isInf THEN <<"I", "n", "f", "i", "n", "i", "t", "y">>
                  ELSE IF x[1].isNan THEN <<"N", "a", "N">>
                  ELSE Render(x[1].value[1], x[1].precision)

\* the part of C21 the code keeps: the special values, and a magnitude that
\* has more digits than the precision, which is not zero
C21_EnoughDigits ==
  (/\ out.op = "String"
   /\ IsFinite(x[1]) => /\ x[1].precision > 0
                        /\ Len(NatToString(Abs(x[1].value[1]))) > x[1].precision) =>
     /\ out.err = NoError
     /\ out.str = IF x[1].isInf THEN <<"I", "n", "f", "i", "n", "i", "t", "y">>
                  ELSE IF x[1].isNan THEN <<"N", "a", "N">>
                  ELSE Render(x[1].value[1], x[1].precision)

\* the magnitude of x at its precision is the square of the magnitude m
ExactSquareOf(m) == m * m = x[1].value[1] * Pow10(x[1].precision)

\* C22: SquareRoot of a finite value fails with UndefinedOperation when the
\* value is negative and only then; zero maps to zero; the exact square of r
\* gives r at the operand's precision and rounding mode.
C22_SquareRoot ==
  (out.op = "SquareRoot" /\ IsFinite(x[1])) =>
     /\ (out.err # NoError) = (x[1].value[1] < 0)
     /\ x[1].value[1] < 0 => (out.err = UndefinedOperationError /\ out.bn = Nil)
     /\ x[1].value[1] >= 0 =>
          /\ out.bn # Nil
          /\ out.bn[1].precision = x[1].precision
          /\ out.bn[1].rounding = x[1].rounding
          /\ \A m \in 0..(x[1].value[1] * Pow10(x[1].precision)) :
                ExactSquareOf(m) => out.bn[1].value = Ptr(m)

\* the part of C22 the code keeps: the negative values and zero, and the
\* exact squares at precision zero
C22_SquareRootOfInteger ==
  (/\ out.op = "SquareRoot"
   /\ IsFinite(x[1])
   /\ x[1].value[1] > 0 => x[1].precision = 0) =>
     /\ (out.err # NoError) = (x[1].value[1] < 0)
     /\ x[1].value[1] < 0 => (out.err = UndefinedOperationError /\ out.bn = Nil)
     /\ x[1].value[1] >= 0 =>
          /\ out.bn # Nil
          /\ out.bn[1].precision = x[1].precision
          /\ out.bn[1].rounding = x[1].rounding
          /\ \A m \in 0..(x[1].value[1] * Pow10(x[1].precision)) :
                ExactSquareOf(m) => out.bn[1].value = Ptr(m)

\* the functions of one value that the claim names
Transcendentals == {"SquareRoot", "Sine", "Cosine", "Tangent", "Log", "Exp"}

\* C23: SquareRoot, Sine, Cosine, Tangent, Log and Exp fail with
\* UndefinedOperation and return no value when the operand is Infinite or
\* NotANumber; Log fails with UndefinedOperation on zero and on negative
\* finite operands too.
C23_UndefinedOperation ==
  /\ (out.op \in Transcendentals /\ ~IsFinite(x[1])) =>
        /\ out.err = UndefinedOperationError
        /\ out.bn = Nil
  /\ (out.op = "Log" /\ IsFinite(x[1]) /\ x[1].value[1] <= 0) =>
        /\ out.err = UndefinedOperationError
        /\ out.bn = Nil

\* the part of C23 the code keeps: Log of zero and of a negative value
C23_LogOutsideDomain ==
  (out.op = "Log" /\ IsFinite(x[1]) /\ x[1].value[1] <= 0) =>
     /\ out.err = UndefinedOperationError
     /\ out.bn = Nil

-----------------------------------------------------------------------------
(* What the claims say of the loops of Exp and Log.                        *)

\* every call of Exp and of Log ends
LoopsTerminate == <>(pc = "done")

\* Exp of a value above zero has made more passes than the value when its
\* loop breaks
PassesOutnumberValue ==
  (pc = "done" /\ out.op = "Exp" /\ IsFinite(x[1]) /\ x[1].value[1] > 0) =>
     loop.i > x[1].value[1]

\* C24: every call of Exp and of Log on a finite operand in its domain
\* terminates, its iteration count capped by a maximum that is fixed
\* whatever the operand.  No maximum is written in the loops; the formula
\* takes the largest value given to them for one, as MaxLoopOperand grows
\* with that value.
C24_IterationCap ==
  pc = "Exp loop" => loop.i <= MaxLoopOperand

-----------------------------------------------------------------------------
(* What the claims say of the values as objects.                           *)

\* C25: values are immutable.  No operation modifies its operands: every
\* value constructed before a step has after it the kind, the integers of
\* its magnitude and parts, the precision and the rounding mode it had, and
\* a change of precision appears in a new value.
C25_Immutable ==
  [][/\ Len(heap') >= Len(heap)
     /\ \A a \in DOMAIN heap : heap'[a] = heap[a]
     /\ Len(x') >= Len(x)
     /\ \A k \in DOMAIN x : x'[k] = x[k]
     /\ \A k \in DOMAIN x' :
          (\E j \in DOMAIN x : x'[k].precision # x[j].precision /\ x'[k].value = x[j].value)
             => x'[k].value = Nil]_vars

\* a state where Round to another precision has rounded in place, under
\* RoundToNearest, a copy of the integer of the first value
C25_Witness ==
  /\ out.op = "Round"
  /\ out.err = NoError
  /\ Len(x) = 2
  /\ x[1].rounding = RoundToNearest
  /\ x[2].precision # x[1].precision
  /\ heap[x[2].value[1]] # heap[x[1].value[1]]

\* ---- Exponentiate ----

\* the stored integer of one at precision p
One(p) == Pow10(p)

\* v is the stored integer of the quotient num / den at one more or one less
\* than the exact quotient at most, whatever the rounding mode
NearQuotient(v, num, den) ==
  /\ (v - 1) * Abs(den) < Abs(num) + Abs(den)
  /\ Abs(num) < (v + 1) * Abs(den) + Abs(den)

\* C26: for a finite x and an exponent n, Exponentiate succeeds, never with
\* Overflow, and returns x raised to n at the precision of x: one for n = 0,
\* x for n = 1, the product x * x for n = 2, and for n = -1 the unit value
\* divided by x (x not zero)
C26_Exponentiate ==
  (pc = "done" /\ out.op = "Exponentiate" /\ IsFinite(x[1])
     /\ (out.n >= 0 \/ x[1].value # Ptr(0)))
    => /\ out.err = NoError
       /\ out.bn # Nil
       /\ IsFinite(out.bn[1])
       /\ out.bn[1].value # Nil
       /\ out.bn[1].precision = x[1].precision
       /\ LET v == out.bn[1].value[1]
              a == x[1].value[1]
              one == One(x[1].precision)
          IN  CASE out.n = 0 -> v = one
                [] out.n = 1 -> v = a
                [] out.n = 2 -> NearQuotient(v, a * a, one)
                [] OTHER -> SignOf(v) \in {0, SignOf(a)}
                            /\ NearQuotient(Abs(v), one * one, a)

\* ---- AbsoluteValue ----

\* C27: AbsoluteValue never fails; of a finite receiver it returns a value of
\* the same precision and rounding mode whose magnitude is the absolute value
\* of the receiver's, and of an infinite or not-a-number receiver a value
\* that Equal finds equal to the receiver
C27_AbsoluteValue ==
  (pc = "done" /\ out.op = "AbsoluteValue")
    => /\ out.err = NoError
       /\ out.bn # Nil
       /\ out.bn[1].precision = x[1].precision
       /\ out.bn[1].rounding = x[1].rounding
       /\ IF IsFinite(x[1])
          THEN /\ IsFinite(out.bn[1])
               /\ out.bn[1].value = Ptr(Abs(x[1].value[1]))
          ELSE Equal(out.bn[1], x[1]) = Bool(TRUE)

\* C27 for the finite receivers alone
C27_AbsoluteValueOfFinite ==
  (pc = "done" /\ out.op = "AbsoluteValue" /\ IsFinite(x[1]))
    => /\ out.err = NoError
       /\ out.bn # Nil
       /\ out.bn[1].precision = x[1].precision
       /\ out.bn[1].rounding = x[1].rounding
       /\ IsFinite(out.bn[1])
       /\ out.bn[1].value = Ptr(Abs(x[1].value[1]))

\* ---- run-time panics ----

\* the operations of one or two values that are to return normally
Returning == {"Add", "Subtract", "Multiply", "Divide", "Modulo", "Round",
              "Equal", "LessThan", "GreaterThan", "LessOrEqual",
              "GreaterOrEqual", "Exponentiate", "Log", "Exp", "AbsoluteValue"}

\* C28: a call of Add, Subtract, Multiply, Divide, Modulo, Round, a
\* comparison, Exponentiate, Log, Exp or AbsoluteValue on values NewBigNumber
\* made returns a value, a boolean or one of the five kinds of error, and
\* never unwinds with a run-time panic
C28_NoPanic ==
  (pc = "done" /\ out.op \in Returning) => out.err \in {NoError} \cup ErrorType

\* C28 for NewBigNumber: no text makes the parser panic
C28_ParseNoPanic ==
  (pc # "input" /\ out.op = "NewBigNumber") => out.err \in {NoError} \cup ErrorType

\* the calls of C28 that do panic have a special operand, or are a Divide or
\* a Modulo past the operand checks, or a Log whose first power rounds to zero
C28_PanicOnlyThere ==
  (pc = "done" /\ out.op \in Returning /\ out.err = Panic)
    => \/ ~IsFinite(x[1])
       \/ ~IsFinite(y[1]) /\ out.op \notin {"Round", "Exponentiate", "Log", "Exp", "AbsoluteValue"}
       \/ out.op \in {"Divide", "Modulo", "Log"}

\* ---- two zero operands ----

\* both operands are finite zeros of one precision
BothZero ==
  /\ BothFinite /\ SamePrecision
  /\ x[1].value = Ptr(0) /\ y[1].value = Ptr(0)

\* C29: Add, Subtract and Multiply of two finite zeros of one precision
\* succeed and return zero
C29_ZeroOperands ==
  (pc = "done" /\ out.op \in {"Add", "Subtract", "Multiply"} /\ BothZero)
    => /\ out.err = NoError
       /\ out.bn # Nil
       /\ IsFinite(out.bn[1])
       /\ out.bn[1].value = Ptr(0)

\* what the operand checks do with two zeros: every operation of two values
\* that runs them fails with UndefinedOperation
C29_ZeroOperandsRejected ==
  (pc = "done" /\ out.op \in {"Add", "Subtract", "Multiply", "Divide", "Modulo"}
     /\ BothZero)
    => out.err = UndefinedOperationError

\* ---- the representation ----

\* the parts of bn are present and its value is their difference
WellFormed(bn) ==
  /\ bn.positive # Nil
  /\ bn.negative # Nil
  /\ bn.value # Nil
  /\ bn.value[1] = bn.positive[1] - bn.negative[1]

\* the operations whose results C30 is about
Producing == {"Add", "Subtract", "Multiply", "Divide", "Modulo",
              "Exponentiate", "AbsoluteValue", "Round"}

\* C30: a finite value that Add, Subtract, Multiply, Divide, Modulo,
\* Exponentiate, AbsoluteValue or Round returned has its positive and negative
\* parts, its value is positive minus negative, and it can be given to a
\* later operation, here Add with itself, which then does not panic
C30_Representation ==
  (pc = "done" /\ out.op \in Producing /\ out.err = NoError /\ out.bn # Nil
     /\ IsFinite(out.bn[1]))
    => /\ WellFormed(out.bn[1])
       /\ Add(out.bn[1], out.bn[1]).err # Panic

\* C30 for the values NewBigNumber made: the finite operands are well formed
C30_ParsedWellFormed ==
  /\ IsFinite(x[1]) => WellFormed(x[1])
  /\ IsFinite(y[1]) => WellFormed(y[1])

\* a result of Add, Subtract or Multiply has its parts, so a later operation
\* can read it, and its value is the difference of the parts whenever the
\* rounding mode of the receiver is RoundDown
C30_SumHasParts ==
  (pc = "done" /\ out.op \in {"Add", "Subtract", "Multiply"} /\ out.err = NoError)
    => /\ out.bn # Nil
       /\ out.bn[1].positive # Nil
       /\ out.bn[1].negative # Nil
       /\ out.bn[1].value # Nil
       /\ x[1].rounding = RoundDown => WellFormed(out.bn[1])
====
